---- MODULE Spec2Model ----
(***************************************************************************)
(* BlockVault: the secure redaction endpoint (api/redact.py, redact_file)  *)
(* as a state machine.  Every request runs on its own request thread; the  *)
(* threads share the file catalog (the "files" collection), the encrypted  *)
(* blob store and the storage directory that holds the temporary plaintext *)
(* files.  A thread's steps interleave with the other threads' steps at    *)
(* the points where the code touches the shared disk, the catalog or an    *)
(* external collaborator.                                                  *)
(***************************************************************************)
EXTENDS Integers, Sequences, FiniteSets, TLC

VARIABLES catalog, blobs, disk, clock, encSeq, served, pc, req, loc, run

vars == <<catalog, blobs, disk, clock, encSeq, served, pc, req, loc, run>>

\* the endpoint's state; run is a redactor called on its own
pipeline == <<catalog, blobs, disk, clock, encSeq, served, pc, req, loc>>

(***************************************************************************)
(* Bounds of the model.                                                    *)
(***************************************************************************)
\* number of request threads
NThreads == 2
\* number of redaction requests served
MaxRequests == 2
\* the millisecond clock runs over 0..MaxClock
MaxClock == 1

Threads == 1..NThreads

\* Python's None, and a request field that is absent
Null == "null"

(***************************************************************************)
(* Strings are sequences of characters, so that str.lower() and            *)
(* Path.suffix are computed and not assumed.                               *)
(***************************************************************************)
LowerChar(c) ==
    CASE c = "A" -> "a"
      [] c = "B" -> "b"
      [] c = "D" -> "d"
      [] c = "F" -> "f"
      [] c = "P" -> "p"
      [] OTHER -> c

Lower(s) == [i \in DOMAIN s |-> LowerChar(s[i])]

\* pathlib's suffix of the temp file name "dec_<ms>_<original_name>": the
\* prefix holds no dot, so the last dot is looked for in original_name; the
\* name never starts with it, and a trailing dot gives no suffix.
Suffix(name) ==
    LET dots == {i \in DOMAIN name : name[i] = "."}
    IN  IF dots = {} THEN << >>
        ELSE LET i == CHOOSE k \in dots : \A j \in dots : j <= k
             IN  IF i = Len(name) THEN << >> ELSE SubSeq(name, i, Len(name))

\* identities (wallet addresses): the same address in two spellings, and another
alice == <<"a">>
ALICE == <<"A">>
bob == <<"b">>
Subjects == {alice, ALICE, bob}

\* file names
NamePdf == <<"r", ".", "p", "d", "f">>
NamePDF == <<"r", ".", "P", "D", "F">>
NameDocx == <<"m", ".", "d", "o", "c", "x">>
NameTxt == <<"n", ".", "t", "x", "t">>
NameDOCX == <<"w", ".", "D", "o", "c", "x">>

(***************************************************************************)
(* Values.  None is Python's None for the values that are records here     *)
(* (a content id, an anchor reference, the redaction audit block).         *)
(***************************************************************************)
None == [kind |-> "none"]

\* A plaintext document: the body it was uploaded with and the redaction
\* passes applied to it so far, oldest first.
Doc(body) == [body |-> body, passes |-> << >>]

\* hashlib.sha256(bytes).hexdigest(): 64 hex characters that identify the bytes
\* (head: its first 16 characters, which identify less)
Sha256(content) == [kind |-> "sha256", of |-> content, head |-> content.body, len |-> 64]

\* os.path.getsize of a plaintext file
SizeOf(content) == Len(content.body) + Len(content.passes)

\* core/crypto_cli.py, the envelope of section 4.1 of the specification: an
\* encrypted blob binds the plaintext to the passphrase and the AAD.
Encrypted(content, passphrase, aad) ==
    [kind |-> "enc", plain |-> content, passphrase |-> passphrase, aad |-> aad]

\* decryption authenticates: it yields the plaintext only for the passphrase
\* and AAD the blob was sealed with
DecryptOk(blob, passphrase, aad) ==
    blob.passphrase = passphrase /\ blob.aad = aad

(***************************************************************************)
(* The request body's redaction_regions: a list of raw entries.  An entry  *)
(* is a mapping from keys to values or something that is no mapping; a     *)
(* value is a number or something int()/float() reject.                    *)
(***************************************************************************)
RegionKeys == {"page", "x", "y", "w", "h"}

Num(n) == [t |-> "num", v |-> n]
NaN == [t |-> "str", v |-> 0]

RawRegion(page, x, y, w, h) ==
    [kind |-> "map",
     f |-> [k \in RegionKeys |->
              CASE k = "page" -> page [] k = "x" -> x [] k = "y" -> y
                [] k = "w" -> w [] OTHER -> h]]

RawGood == RawRegion(Num(0), Num(1), Num(1), Num(2), Num(2))
RawFar == RawRegion(Num(5), Num(1), Num(1), Num(2), Num(2))
RawNaN == RawRegion(Num(0), NaN, Num(1), Num(2), Num(2))
RawNoKey == [kind |-> "map", f |-> [k \in RegionKeys \ {"h"} |-> Num(1)]]
RawScalar == [kind |-> "scalar", f |-> [k \in {} |-> Num(0)]]

\* one RedactionRegion(page=int(..), x=float(..), ...) succeeds: KeyError on a
\* missing key, TypeError on a non-mapping, ValueError on a non-numeric value
RegionOk(raw) ==
    /\ raw.kind = "map"
    /\ RegionKeys \subseteq DOMAIN raw.f
    /\ \A k \in RegionKeys : raw.f[k].t = "num"

ToRegion(raw) ==
    [page |-> raw.f["page"].v, x |-> raw.f["x"].v, y |-> raw.f["y"].v,
     w |-> raw.f["w"].v, h |-> raw.f["h"].v]

\* (a variant: malformed entries are dropped and the rest is accepted)
BuildRegionsLenient(regions_raw) ==
    LET good == SelectSeq(regions_raw, RegionOk)
    IN  [ok |-> TRUE, regions |-> [i \in DOMAIN good |-> ToRegion(good[i])]]

\* _build_regions: the regions, or abort(400) at the first malformed entry
BuildRegions(regions_raw) ==
    IF \A i \in DOMAIN regions_raw : RegionOk(regions_raw[i])
    THEN [ok |-> TRUE, regions |-> [i \in DOMAIN regions_raw |-> ToRegion(regions_raw[i])]]
    ELSE [ok |-> FALSE, regions |-> << >>]

\* (a variant: the suffix is compared as it is spelled)
CreateRedactorCaseSensitive(original_name) ==
    LET suffix == Suffix(original_name)
    IN  IF suffix = <<".", "p", "d", "f">> THEN "pdf"
        ELSE IF suffix \in {<<".", "d", "o", "c", "x">>} THEN "docx"
        ELSE ""

\* _create_redactor: the redactor for the suffix of the source path, "" for
\* abort(415)
CreateRedactor(original_name) ==
    LET suffix == Lower(Suffix(original_name))
    IN  IF suffix = <<".", "p", "d", "f">> THEN "pdf"
        ELSE IF suffix \in {<<".", "d", "o", "c", "x">>} THEN "docx"
        ELSE ""

(***************************************************************************)
(* The catalog and the blob store before the first request: documents      *)
(* uploaded earlier, and f2, the successor an earlier redaction of f1      *)
(* left (it carries f1's original name).  f3 is no redactable format; f5   *)
(* lost its blob; f6 is a DOCX whose extension is spelled in mixed case.   *)
(* A record's owner is the identity of its uploader as the token spelled   *)
(* it: f4's uploader signed in with the mixed-case spelling                *)
(* of her address.                                                         *)
(***************************************************************************)
Upload(owner, original_name, enc, content, folder) ==
    [owner |-> owner, original_name |-> original_name, enc_filename |-> <<enc>>,
     size |-> SizeOf(content), created_at |-> 0, aad |-> "aad-" \o enc,
     sha256 |-> Sha256(content), cid |-> None, anchor_tx |-> None,
     folder |-> folder, parent_file_id |-> Null, redaction_meta |-> None]

Body1 == <<"s", "s", "n">>
Body2 == <<"i", "d">>

\* what a redactor saves: the source with one more redaction pass
Redacted(redactor, content, regions) ==
    [body |-> content.body,
     passes |-> Append(content.passes, [redactor |-> redactor, regions |-> regions])]

InitContent ==
    [id \in {"f1", "f2", "f3", "f4", "f5", "f6"} |->
        CASE id = "f1" -> Doc(Body1)
          [] id = "f2" -> Redacted("pdf", Doc(Body1), << >>)
          [] OTHER -> Doc(Body2)]

GoodPass == "k1"
WrongPass == "k2"

InitCatalog ==
    LET f1 == Upload(alice, NamePdf, "e1", InitContent["f1"], "legal")
    IN  ("f1" :> f1) @@
        ("f2" :> [f1 EXCEPT !.enc_filename = <<"redacted", "0">>,
                            !.size = SizeOf(InitContent["f2"]),
                            !.sha256 = Sha256(InitContent["f2"]),
                            !.parent_file_id = "f1",
                            !.redaction_meta = [kind |-> "meta", regions |-> << >>]]) @@
        ("f3" :> Upload(bob, NameTxt, "e3", InitContent["f3"], "notes")) @@
        ("f4" :> Upload(ALICE, NamePDF, "e4", InitContent["f4"], "legal")) @@
        ("f5" :> Upload(bob, NameDocx, "e5", InitContent["f5"], "notes")) @@
        ("f6" :> Upload(bob, NameDOCX, "e6", InitContent["f6"], "notes"))

\* every blob was sealed with its owner's passphrase and its record's AAD
InitBlobs ==
    [p \in {InitCatalog[id].enc_filename : id \in DOMAIN InitCatalog \ {"f5"}} |->
        LET id == CHOOSE i \in DOMAIN InitCatalog : InitCatalog[i].enc_filename = p
        IN  Encrypted(InitContent[id], GoodPass, InitCatalog[id].aad)]

(***************************************************************************)
(* Requests: the JSON body and the token subject require_auth attached.    *)
(* Any request is served; the requests served while another request runs   *)
(* are the owner's on the two files whose temp names can meet.             *)
(***************************************************************************)
FileIds == {Null, "zz", "n1"} \cup DOMAIN InitCatalog
Passphrases == {Null, GoodPass, WrongPass}
RegionLists ==
    {<< >>, <<RawGood>>, <<RawGood, RawNoKey>>, <<RawNaN, RawGood>>,
     <<RawFar, RawScalar, RawGood>>}

Requests ==
    [file_id : FileIds, passphrase : Passphrases, sub : Subjects,
     redaction_regions : RegionLists]

RaceRequests ==
    [file_id : {"f1", "f2"}, passphrase : {GoodPass}, sub : {alice},
     redaction_regions : {<< >>}]

NoRequest ==
    [file_id |-> Null, passphrase |-> Null, sub |-> << >>, redaction_regions |-> << >>]

\* a thread's locals before the handler has set them
NoLoc ==
    [canonical_id |-> Null, owner |-> << >>, requester |-> << >>,
     tmp_plain |-> << >>, tmp_redacted |-> << >>,
     regions |-> << >>, redactor |-> "", sha256 |-> None,
     relative_enc_name |-> << >>, size |-> 0, cid |-> None, anchor_tx |-> None,
     rec |-> None, status |-> 0, response |-> None, anchored |-> None,
     decrypt_call |-> None, encrypt_call |-> None,
     \* what the request did, kept for the properties
     serial |-> 0, made |-> {}, ops |-> << >>, faults |-> {}]

TypeOK ==
    /\ pc \in [Threads -> {"idle", "decrypt", "redact", "hash", "encrypt", "publish",
                           "anchor", "insert", "clean1", "clean2", "done"}]
    /\ req \in [Threads -> Requests \cup {NoRequest}]
    /\ clock \in 0..MaxClock
    /\ encSeq \in Nat
    /\ served \in 0..MaxRequests

\* no redactor is being looked at
NoRun == [phase |-> "none"]

\* the endpoint before the first request
Idle ==
    /\ catalog = InitCatalog
    /\ blobs = InitBlobs
    /\ disk = << >>
    /\ clock = 0
    /\ encSeq = 1
    /\ served = 0
    /\ pc = [t \in Threads |-> "idle"]
    /\ req = [t \in Threads |-> NoRequest]
    /\ loc = [t \in Threads |-> NoLoc]

Init == Idle /\ run = NoRun

(***************************************************************************)
(* Pieces of redact_file.                                                  *)
(***************************************************************************)
\* line 82: the requester is the token subject, lower-cased
Requester(sub) == Lower(sub)

\* (a variant: the ownership check passes everyone)
AuthorizedAnyone(owner, requester) == TRUE

\* line 83: only the owner passes
Authorized(owner, requester) == owner = requester

\* lines 91-92: the two temporary plaintext files in the storage directory
TmpPlain(ms, original_name) == <<"dec", ms, original_name>>
TmpRedacted(ms, original_name) == <<"redacted", ms, original_name>>

\* _lookup_file (api/files.py): the catalog's lookup(id) -> Record; the record
\* and its identifier, or no record (the caller gets 404)
LookupFile(file_id) ==
    IF file_id \in DOMAIN catalog
    THEN [found |-> TRUE, rec |-> catalog[file_id], canonical_id |-> file_id]
    ELSE [found |-> FALSE, rec |-> None, canonical_id |-> Null]

\* (a variant: the blob is looked for before the owner is compared)
PrecheckBlobFirst(r) ==
    IF r.file_id = Null THEN 400
    ELSE IF r.passphrase = Null THEN 400
    ELSE IF ~LookupFile(r.file_id).found THEN 404
    ELSE IF LookupFile(r.file_id).rec.enc_filename \notin DOMAIN blobs THEN 410
    ELSE IF ~Authorized(LookupFile(r.file_id).rec.owner, Requester(r.sub)) THEN 403
    ELSE 0

\* (a variant: a missing blob is reported as a missing record)
PrecheckGoneAsNotFound(r) ==
    IF r.file_id = Null THEN 400
    ELSE IF r.passphrase = Null THEN 400
    ELSE IF ~LookupFile(r.file_id).found THEN 404
    ELSE IF ~Authorized(LookupFile(r.file_id).rec.owner, Requester(r.sub)) THEN 403
    ELSE IF LookupFile(r.file_id).rec.enc_filename \notin DOMAIN blobs THEN 404
    ELSE 0

\* lines 71-89: the checks before any file is staged; 0 when all pass
Precheck(r) ==
    IF r.file_id = Null THEN 400
    ELSE IF r.passphrase = Null THEN 400
    ELSE IF ~LookupFile(r.file_id).found THEN 404
    ELSE IF ~Authorized(LookupFile(r.file_id).rec.owner, Requester(r.sub)) THEN 403
    ELSE IF LookupFile(r.file_id).rec.enc_filename \notin DOMAIN blobs THEN 410
    ELSE 0

\* the catalog was read iff validation got as far as _lookup_file
PrecheckOps(r) ==
    IF r.file_id = Null \/ r.passphrase = Null THEN << >> ELSE <<"find_one">>

\* a file written to, and removed from, the storage directory
WriteFile(d, path, content, t) ==
    (path :> [content |-> content, by |-> loc[t].serial]) @@ d
RemoveFile(d, path) == [q \in DOMAIN d \ {path} |-> d[q]]

\* what a decryption that failed authentication may have left at its output
Partial == [body |-> << >>, passes |-> << >>]

\* ipfs.add_file's content id of a blob
CidOf(path) == [kind |-> "cid", of |-> path]

\* (a variant: a failure of the on-chain call leaves anchor_file as an
\* exception)
AnchorFileUnguarded(hash_hex, size, cid, chain) ==
    IF hash_hex.kind = "none" \/ hash_hex.len # 64 THEN None
    ELSE IF chain = "disabled"
         THEN [kind |-> "simulated", hash16 |-> hash_hex.head, size |-> size]
    ELSE IF chain = "sent"
         THEN [kind |-> "tx", hash |-> hash_hex.of, size |-> size, cid |-> cid]
    ELSE [kind |-> "raised"]

\* onchain.anchor_file: None for a hash that is not 64 characters; with
\* anchoring not enabled a simulated reference made of the hash's first 16
\* characters and the size; else the transaction hash, or None when the
\* on-chain call fails
AnchorFile(hash_hex, size, cid, chain) ==
    IF hash_hex.kind = "none" \/ hash_hex.len # 64 THEN None
    ELSE IF chain = "disabled"
         THEN [kind |-> "simulated", hash16 |-> hash_hex.head, size |-> size]
    ELSE IF chain = "sent"
         THEN [kind |-> "tx", hash |-> hash_hex.of, size |-> size, cid |-> cid]
    ELSE None

\* (a variant: the link is copied from the parent record with the other fields)
SuccessorCopiesParent(l, r, now) ==
    [owner |-> l.owner, original_name |-> l.rec.original_name,
     enc_filename |-> l.relative_enc_name, size |-> l.size, created_at |-> now,
     aad |-> l.rec.aad, sha256 |-> l.sha256, cid |-> l.cid,
     anchor_tx |-> l.anchor_tx, folder |-> l.rec.folder,
     parent_file_id |-> l.rec.parent_file_id,
     redaction_meta |-> [kind |-> "meta", regions |-> l.regions]]

\* lines 134-152: the successor record
Successor(l, r, now) ==
    [owner |-> l.owner, original_name |-> l.rec.original_name,
     enc_filename |-> l.relative_enc_name, size |-> l.size, created_at |-> now,
     aad |-> l.rec.aad, sha256 |-> l.sha256, cid |-> l.cid,
     anchor_tx |-> l.anchor_tx, folder |-> l.rec.folder,
     parent_file_id |-> l.canonical_id,
     redaction_meta |-> [kind |-> "meta", regions |-> l.regions]]

\* insert_one's new _id
NewId == "n" \o ToString(Cardinality(DOMAIN catalog) - Cardinality(DOMAIN InitCatalog) + 1)

\* (a variant: the temp files are removed on the success path only)
FailNoCleanup(t, code, fault) ==
    /\ loc' = [loc EXCEPT ![t].status = code, ![t].faults = @ \cup fault]
    /\ pc' = [pc EXCEPT ![t] = "done"]

\* an exception leaves the try block: the status Flask answers with, then the
\* finally block
Fail(t, code, fault) ==
    /\ loc' = [loc EXCEPT ![t].status = code, ![t].faults = @ \cup fault]
    /\ pc' = [pc EXCEPT ![t] = "clean1"]

(***************************************************************************)
(* The steps of a request.                                                 *)
(***************************************************************************)
\* the requests in progress
Active(u) == pc[u] \notin {"idle", "done"}

\* the requests that run at the same time are race requests
Overlap(t, r) ==
    \A u \in Threads \ {t} :
        Active(u) => (r \in RaceRequests /\ req[u] \in RaceRequests)

\* lines 71-92: validate, resolve, authorize, check the blob, name the temp
\* files after the millisecond time.time() shows (clock: the latest reading,
\* counted from the first request's).  The lowest free thread serves.
Start(t) ==
    /\ pc[t] = "idle"
    /\ \A u \in Threads : u < t => pc[u] # "idle"
    /\ served < MaxRequests
    /\ served' = served + 1
    /\ \E r \in Requests, ms \in (IF served = 0 THEN {clock} ELSE clock..MaxClock) :
        LET st == Precheck(r)
            found == LookupFile(r.file_id)
        IN  /\ Overlap(t, r)
            /\ req' = [req EXCEPT ![t] = r]
            /\ clock' = ms
            /\ IF st # 0
               THEN /\ loc' = [loc EXCEPT ![t].status = st, ![t].ops = PrecheckOps(r),
                                          ![t].serial = served + 1]
                    /\ pc' = [pc EXCEPT ![t] = "done"]
               ELSE /\ loc' = [loc EXCEPT
                           ![t].rec = found.rec,
                           ![t].canonical_id = found.canonical_id,
                           ![t].owner = found.rec.owner,
                           ![t].requester = Requester(r.sub),
                           ![t].tmp_plain = TmpPlain(ms, found.rec.original_name),
                           ![t].tmp_redacted = TmpRedacted(ms, found.rec.original_name),
                           ![t].ops = PrecheckOps(r),
                           ![t].serial = served + 1]
                    /\ pc' = [pc EXCEPT ![t] = "decrypt"]
    /\ UNCHANGED <<catalog, blobs, disk, encSeq>>

\* line 94: the passphrase and the AAD handed to crypto_decrypt
DecryptArgs(t) ==
    [kind |-> "call", passphrase |-> req[t].passphrase, aad |-> loc[t].rec.aad]

\* line 94: decrypt the parent's blob into tmp_plain
Decrypt(t) ==
    /\ pc[t] = "decrypt"
    /\ LET l == loc[t]
           blob == blobs[l.rec.enc_filename]
           args == DecryptArgs(t)
       IN  IF DecryptOk(blob, args.passphrase, args.aad)
           THEN /\ disk' = WriteFile(disk, l.tmp_plain, blob.plain, t)
                /\ loc' = [loc EXCEPT ![t].ops = Append(@, "decrypt"),
                                      ![t].decrypt_call = args]
                /\ pc' = [pc EXCEPT ![t] = "redact"]
           ELSE /\ \E left \in BOOLEAN :
                     disk' = IF left THEN WriteFile(disk, l.tmp_plain, Partial, t) ELSE disk
                /\ loc' = [loc EXCEPT ![t].status = 500,
                                      ![t].ops = Append(@, "decrypt"),
                                      ![t].decrypt_call = args]
                /\ pc' = [pc EXCEPT ![t] = "clean1"]
    /\ UNCHANGED <<catalog, blobs, clock, encSeq, served, req>>

\* lines 96-113: normalize the regions, pick the redactor, redact the staged
\* plaintext and save the result at tmp_redacted
Redact(t) ==
    /\ pc[t] = "redact"
    /\ LET l == loc[t]
           built == BuildRegions(req[t].redaction_regions)
           redactor == CreateRedactor(l.tmp_plain[3])
       IN  IF ~built.ok THEN Fail(t, 400, {}) /\ disk' = disk
           ELSE IF redactor = "" THEN Fail(t, 415, {}) /\ disk' = disk
           ELSE IF l.tmp_plain \notin DOMAIN disk
                THEN Fail(t, 500, {"lost_file"}) /\ disk' = disk
           ELSE \E broken \in BOOLEAN :
                  IF broken THEN Fail(t, 500, {"redactor"}) /\ disk' = disk
                  ELSE /\ disk' = WriteFile(disk, l.tmp_redacted,
                                     Redacted(redactor, disk[l.tmp_plain].content,
                                              built.regions), t)
                       /\ loc' = [loc EXCEPT ![t].regions = built.regions,
                                             ![t].redactor = redactor,
                                             ![t].ops = Append(@, "redact")]
                       /\ pc' = [pc EXCEPT ![t] = "hash"]
    /\ UNCHANGED <<catalog, blobs, clock, encSeq, served, req>>

\* the redactor's last step: the SHA-256 of the bytes read back from the
\* output path
Hash(t) ==
    /\ pc[t] = "hash"
    /\ LET l == loc[t]
       IN  IF l.tmp_redacted \notin DOMAIN disk
           THEN Fail(t, 500, {"lost_file"})
           ELSE /\ loc' = [loc EXCEPT ![t].sha256 = Sha256(disk[l.tmp_redacted].content)]
                /\ pc' = [pc EXCEPT ![t] = "encrypt"]
    /\ UNCHANGED <<catalog, blobs, disk, clock, encSeq, served, req>>

\* (a variant: the redacted blob is written over the parent's)
RelativeEncNameParent(t) == loc[t].rec.enc_filename

\* lines 115-117: the new blob's place under redacted/, named by
\* generate_encrypted_filename (a name not used before)
RelativeEncName(t) == <<"redacted", ToString(encSeq)>>

\* (a variant: the new blob is sealed without the parent's AAD)
EncryptArgsNoAad(t) ==
    [kind |-> "call", passphrase |-> req[t].passphrase, aad |-> Null]

\* line 119: the passphrase and the AAD handed to crypto_encrypt
EncryptArgs(t) ==
    [kind |-> "call", passphrase |-> req[t].passphrase, aad |-> loc[t].rec.aad]

\* lines 115-119: re-encrypt tmp_redacted into the new blob
Encrypt(t) ==
    /\ pc[t] = "encrypt"
    /\ encSeq' = encSeq + 1
    /\ LET l == loc[t]
       IN  IF l.tmp_redacted \notin DOMAIN disk
           THEN Fail(t, 500, {"lost_file"}) /\ blobs' = blobs
           ELSE \E broken \in BOOLEAN :
                  IF broken THEN Fail(t, 500, {"encrypt"}) /\ blobs' = blobs
                  ELSE /\ blobs' = (RelativeEncName(t) :>
                                      Encrypted(disk[l.tmp_redacted].content,
                                                EncryptArgs(t).passphrase,
                                                EncryptArgs(t).aad)) @@ blobs
                       /\ loc' = [loc EXCEPT ![t].relative_enc_name = RelativeEncName(t),
                                             ![t].encrypt_call = EncryptArgs(t),
                                             ![t].ops = Append(@, "encrypt")]
                       /\ pc' = [pc EXCEPT ![t] = "publish"]
    /\ UNCHANGED <<catalog, disk, clock, served, req>>

\* lines 123-126 and 129-132: an exception of the publication or of the
\* anchoring is swallowed, and the pipeline goes on
AfterPublishFatal(out) == IF out = "raise" THEN "clean1" ELSE "anchor"
AfterPublish(out) == "anchor"
AfterAnchorFatal(out) == IF out = "raise" THEN "clean1" ELSE "insert"
AfterAnchor(out) == "insert"

\* lines 121-126: the size of tmp_redacted, then the best-effort publication
Publish(t) ==
    /\ pc[t] = "publish"
    /\ LET l == loc[t]
       IN  IF l.tmp_redacted \notin DOMAIN disk
           THEN Fail(t, 500, {"lost_file"})
           ELSE \E out \in {"cid", "raise"} :
                  /\ loc' = [loc EXCEPT
                        ![t].size = SizeOf(disk[l.tmp_redacted].content),
                        ![t].cid = IF out = "cid" THEN CidOf(l.relative_enc_name) ELSE None,
                        ![t].faults = IF out = "raise" THEN @ \cup {"publish"} ELSE @,
                        ![t].ops = Append(@, "publish")]
                  /\ pc' = [pc EXCEPT ![t] = AfterPublish(out)]
    /\ UNCHANGED <<catalog, blobs, disk, clock, encSeq, served, req>>

\* lines 128-132: the best-effort anchoring
Anchor(t) ==
    /\ pc[t] = "anchor"
    /\ LET l == loc[t]
       IN  \E out \in {"raise", "disabled"} :
              /\ loc' = [loc EXCEPT
                    ![t].anchor_tx = IF out = "raise" THEN None
                                     ELSE AnchorFile(l.sha256, l.size, l.cid, out),
                    ![t].anchored = [kind |-> "call", hash |-> l.sha256,
                                     size |-> l.size, cid |-> l.cid],
                    ![t].faults = IF out = "raise" THEN @ \cup {"anchor"} ELSE @,
                    ![t].ops = Append(@, "anchor")]
              /\ pc' = [pc EXCEPT ![t] = AfterAnchor(out)]
    /\ UNCHANGED <<catalog, blobs, disk, clock, encSeq, served, req>>

\* lines 155-162: the response
Response(l, id) ==
    [status |-> "success", file_id |-> id, new_cid |-> l.cid, hash |-> l.sha256,
     redacted_by |-> l.requester, anchor_tx |-> l.anchor_tx]

\* (a variant: the record is inserted before a step that can still fail)
InsertThenFail(t) ==
    /\ pc[t] = "insert"
    /\ catalog' = (NewId :> Successor(loc[t], req[t], clock)) @@ catalog
    /\ \E broken \in BOOLEAN :
          /\ loc' = [loc EXCEPT ![t].status = IF broken THEN 500 ELSE 200,
                                ![t].response = Response(loc[t], NewId),
                                ![t].made = @ \cup {NewId},
                                ![t].ops = Append(@, "insert_one")]
          /\ pc' = [pc EXCEPT ![t] = "clean1"]
    /\ UNCHANGED <<blobs, disk, clock, encSeq, served, req>>

\* lines 134-162: insert the successor record and answer
Insert(t) ==
    /\ pc[t] = "insert"
    /\ \E broken \in BOOLEAN :
          IF broken THEN Fail(t, 500, {"insert"}) /\ catalog' = catalog
          ELSE /\ catalog' = (NewId :> Successor(loc[t], req[t], clock)) @@ catalog
               /\ loc' = [loc EXCEPT ![t].status = 200,
                                     ![t].response = Response(loc[t], NewId),
                                     ![t].made = @ \cup {NewId},
                                     ![t].ops = Append(@, "insert_one")]
               /\ pc' = [pc EXCEPT ![t] = "clean1"]
    /\ UNCHANGED <<blobs, disk, clock, encSeq, served, req>>

\* (a variant: a failing os.remove is raised out of the finally block)
CleanupRaises(t, at, path, next) ==
    /\ pc[t] = at
    /\ IF path \in DOMAIN disk
       THEN \E broken \in BOOLEAN :
              IF broken
              THEN /\ disk' = disk
                   /\ loc' = [loc EXCEPT ![t].faults = @ \cup {"delete"},
                                         ![t].status = 500, ![t].response = None]
                   /\ pc' = [pc EXCEPT ![t] = "done"]
              ELSE /\ disk' = RemoveFile(disk, path)
                   /\ loc' = [loc EXCEPT ![t].ops = Append(@, "remove")]
                   /\ pc' = [pc EXCEPT ![t] = next]
       ELSE UNCHANGED <<disk, loc>> /\ pc' = [pc EXCEPT ![t] = next]
    /\ UNCHANGED <<catalog, blobs, clock, encSeq, served, req>>

\* lines 164-169, one turn of the loop: remove the file if it is there; a
\* failing os.remove is logged and the loop goes on
Cleanup(t, at, path, next) ==
    /\ pc[t] = at
    /\ IF path \in DOMAIN disk
       THEN \E broken \in BOOLEAN :
              IF broken
              THEN /\ disk' = disk
                   /\ loc' = [loc EXCEPT ![t].faults = @ \cup {"delete"}]
              ELSE /\ disk' = RemoveFile(disk, path)
                   /\ loc' = [loc EXCEPT ![t].ops = Append(@, "remove")]
       ELSE UNCHANGED <<disk, loc>>
    /\ pc' = [pc EXCEPT ![t] = next]
    /\ UNCHANGED <<catalog, blobs, clock, encSeq, served, req>>

Clean1(t) == Cleanup(t, "clean1", loc[t].tmp_plain, "clean2")
Clean2(t) == Cleanup(t, "clean2", loc[t].tmp_redacted, "done")

\* the response is out and the thread is free for the next request
Retire(t) ==
    /\ pc[t] = "done"
    /\ pc' = [pc EXCEPT ![t] = "idle"]
    /\ req' = [req EXCEPT ![t] = NoRequest]
    /\ loc' = [loc EXCEPT ![t] = NoLoc]
    /\ UNCHANGED <<catalog, blobs, disk, clock, encSeq, served>>

\* a finished request is looked at before anything else moves
NoneDone == \A u \in Threads : pc[u] # "done"

Next ==
    \/ \E t \in Threads : NoneDone /\ Start(t) /\ UNCHANGED run
    \/ \E t \in Threads : NoneDone /\ Decrypt(t) /\ UNCHANGED run
    \/ \E t \in Threads : NoneDone /\ Redact(t) /\ UNCHANGED run
    \/ \E t \in Threads : NoneDone /\ Hash(t) /\ UNCHANGED run
    \/ \E t \in Threads : NoneDone /\ Encrypt(t) /\ UNCHANGED run
    \/ \E t \in Threads : NoneDone /\ Publish(t) /\ UNCHANGED run
    \/ \E t \in Threads : NoneDone /\ Anchor(t) /\ UNCHANGED run
    \/ \E t \in Threads : NoneDone /\ Insert(t) /\ UNCHANGED run
    \/ \E t \in Threads : NoneDone /\ Clean1(t) /\ UNCHANGED run
    \/ \E t \in Threads : NoneDone /\ Clean2(t) /\ UNCHANGED run
    \/ \E t \in Threads : Retire(t) /\ UNCHANGED run

Spec == Init /\ [][Next]_vars

(***************************************************************************)
(* The redactors on their own (services/redaction_service).  Text is a     *)
(* sequence of characters; a PDF page is one line of text, its k-th        *)
(* character in the unit box [k-1, k] x [0, 1].                            *)
(***************************************************************************)
\* the longest text of a page, a paragraph or a cell
MaxText == 3
\* the most pages of a PDF
MaxPages == 2

Range(f) == {f[i] : i \in DOMAIN f}

Alphabet == {"a", "b"}
\* the block-fill character, and the blank a character removed from a PDF leaves
Block == "#"
Gap == " "

Texts == UNION {[1..n -> Alphabet] : n \in 0..MaxText}

\* the order of Python's str comparison on these characters
CharRank(c) == CASE c = Gap -> 0 [] c = "a" -> 1 [] c = "b" -> 2 [] OTHER -> 3

RECURSIVE StrLess(_, _)
StrLess(s, u) ==
    IF u = << >> THEN FALSE
    ELSE IF s = << >> THEN TRUE
    ELSE IF Head(s) # Head(u) THEN CharRank(Head(s)) < CharRank(Head(u))
    ELSE StrLess(Tail(s), Tail(u))

\* sorted(S) of a set of strings
RECURSIVE Sorted(_)
Sorted(S) ==
    IF S = {} THEN << >>
    ELSE LET m == CHOOSE x \in S : \A y \in S \ {x} : StrLess(x, y)
         IN  <<m>> \o Sorted(S \ {m})

\* the orders a set can be iterated in
Orders(S) == {f \in [1..Cardinality(S) -> S] : \A x \in S : \E i \in DOMAIN f : f[i] = x}

\* term occurs in text at position i
OccursAt(text, term, i) ==
    /\ i + Len(term) - 1 <= Len(text)
    /\ \A k \in 1..Len(term) : text[i + k - 1] = term[k]

\* Python's `term in text`
Contains(text, term) == \E i \in 1..(Len(text) + 1) : OccursAt(text, term, i)

\* "#" * n
Fill(n) == [k \in 1..n |-> Block]

\* (a variant: text.replace(old, new, 1), the first occurrence only)
ReplaceFirst(text, old, new) ==
    IF \E i \in 1..(Len(text) + 1) : OccursAt(text, old, i)
    THEN LET i == CHOOSE k \in 1..(Len(text) + 1) :
                     /\ OccursAt(text, old, k)
                     /\ \A j \in 1..(k - 1) : ~OccursAt(text, old, j)
         IN  SubSeq(text, 1, i - 1) \o new \o SubSeq(text, i + Len(old), Len(text))
    ELSE text

\* Python's text.replace(old, new): the occurrences found scanning from the
\* left, none overlapping another; an empty old matches before every
\* character and at the end
RECURSIVE Replace(_, _, _)
Replace(text, old, new) ==
    IF old = << >>
    THEN IF text = << >> THEN new
         ELSE new \o <<Head(text)>> \o Replace(Tail(text), old, new)
    ELSE IF Len(text) < Len(old) THEN text
    ELSE IF SubSeq(text, 1, Len(old)) = old
         THEN new \o Replace(SubSeq(text, Len(old) + 1, Len(text)), old, new)
    ELSE <<Head(text)>> \o Replace(Tail(text), old, new)

\* hashlib.sha256 of the bytes of a saved document
Sha256Saved(doc) == [kind |-> "sha256", of |-> doc, len |-> 64]

\* fitz.Rect(x0, y0, x1, y1)
Rect(x0, y0, x1, y1) == [x0 |-> x0, y0 |-> y0, x1 |-> x1, y1 |-> y1]

\* page.search_for(term): the rectangles of the occurrences of term
SearchFor(text, term) ==
    {Rect(i - 1, 0, i - 1 + Len(term), 1) :
        i \in {j \in 1..Len(text) : Len(term) > 0 /\ OccursAt(text, term, j)}}

\* the rectangle reaches into the box of the page's k-th character
Covers(rect, k) == rect.x0 < k /\ rect.x1 > k - 1 /\ rect.y0 < 1 /\ rect.y1 > 0

\* page.apply_redactions(): what lies under a redaction mark is removed
ApplyMarks(text, rects) ==
    [k \in DOMAIN text |-> IF \E r \in rects : Covers(r, k) THEN Gap ELSE text[k]]

\* pdf_redactor.py lines 22-31, one page: the terms searched and found on it
PageHits(text, matched_texts) ==
    SelectSeq(matched_texts, LAMBDA term : term # << >> /\ SearchFor(text, term) # {})

\* lines 20-31: redacted_terms after the pages up to the i-th
RECURSIVE RedactedTerms(_, _, _)
RedactedTerms(pages, matched_texts, i) ==
    IF i = 0 THEN << >>
    ELSE RedactedTerms(pages, matched_texts, i - 1) \o PageHits(pages[i], matched_texts)

\* (a variant: no region is skipped)
SkippedNever(region, page_count) == FALSE

\* lines 33-34: the region is skipped
Skipped(region, page_count) == region.page < 0 \/ region.page >= page_count

\* lines 36-41: the rectangle of a region
RegionRect(region) ==
    Rect(region.x, region.y, region.x + region.w, region.y + region.h)

\* line 58 (and docx_redactor.py line 48): total_regions
TotalRegions(regions, page_count) == Len(regions)

\* (a variant: every term searched for is reported)
PdfRemovedTermsSearched(pages, matched_texts) ==
    Sorted({t \in Range(matched_texts) : t # << >>})

\* lines 17-31 and 53: removed_terms
PdfRemovedTerms(pages, matched_texts) ==
    Sorted(Range(RedactedTerms(pages, matched_texts, Len(pages))))

\* PDFRedactor.apply_redactions; term_marks and region_marks are the
\* rectangles add_redact_annot was called with, page by page
PdfRedactor(doc, request) ==
    LET n == Len(doc.pages)
        terms == {t \in Range(request.matched_texts) : t # << >>}
        term_marks == [i \in 1..n |-> UNION {SearchFor(doc.pages[i], t) : t \in terms}]
        region_marks ==
            [i \in 1..n |->
                {RegionRect(request.regions[j]) :
                    j \in {k \in DOMAIN request.regions :
                             /\ ~Skipped(request.regions[k], n)
                             /\ request.regions[k].page = i - 1}}]
        saved == [kind |-> "pdf",
                  pages |-> [i \in 1..n |->
                               ApplyMarks(doc.pages[i], term_marks[i] \cup region_marks[i])]]
    IN  [doc |-> saved, sha256 |-> Sha256Saved(saved),
         total_regions |-> TotalRegions(request.regions, n),
         removed_terms |-> PdfRemovedTerms(doc.pages, request.matched_texts),
         term_marks |-> term_marks, region_marks |-> region_marks,
         \* line 35: load_page raises for a page the document does not have
         error |-> \E j \in DOMAIN request.regions :
                      /\ ~Skipped(request.regions[j], n)
                      /\ request.regions[j].page \notin 0..(n - 1)]

\* docx_redactor.py lines 20-24: the term set
DocxTerms(request) ==
    {request.custom_terms[i] :
        i \in {j \in DOMAIN request.custom_terms : request.custom_terms[j] # << >>}}
    \cup Range(request.patterns_applied)
    \cup Range(request.matched_texts)

\* (a variant: a term is replaced by one block character)
BlockFillShort(term) == <<Block>>

\* lines 31 and 38: "#" * len(term)
BlockFill(term) == Fill(Len(term))

\* lines 29-31 (and 36-38): the terms, in the order the set yields them, are
\* replaced in one text
RECURSIVE Substitute(_, _)
Substitute(text, order) ==
    IF order = << >> THEN text
    ELSE LET term == Head(order)
         IN  Substitute(IF Contains(text, term)
                        THEN Replace(text, term, BlockFill(term)) ELSE text,
                        Tail(order))

\* (a variant: the core properties are saved as they were)
StripMetadataSkipped(core, requested_by) == core

\* lines 52-63: _strip_metadata
StripMetadata(core, requested_by) ==
    [author |-> Null, comments |-> Null, keywords |-> Null,
     last_modified_by |-> requested_by, revision |-> 1,
     subject |-> Null, title |-> Null]

\* lines 30-31 (and 37-38): the terms for which the replacement was made in
\* one text
RECURSIVE Substituted(_, _)
Substituted(text, order) ==
    IF order = << >> THEN {}
    ELSE LET term == Head(order)
         IN  IF Contains(text, term)
             THEN {term} \cup Substituted(Replace(text, term, BlockFill(term)), Tail(order))
             ELSE Substituted(text, Tail(order))

\* lines 19, 26-27: removed_terms
DocxRemovedTerms(doc, terms) == IF terms # {} THEN Sorted(terms) ELSE << >>

\* DOCXRedactor.apply_redactions, the term set iterated in the given order
DocxRedactor(doc, request, order) ==
    LET terms == DocxTerms(request)
        saved == [kind |-> "docx",
                  paragraphs |-> [i \in DOMAIN doc.paragraphs |->
                                     Substitute(doc.paragraphs[i], order)],
                  cells |-> [i \in DOMAIN doc.cells |-> Substitute(doc.cells[i], order)],
                  core |-> StripMetadata(doc.core, request.requested_by)]
    IN  [doc |-> saved, sha256 |-> Sha256Saved(saved),
         total_regions |-> TotalRegions(request.regions, 0),
         removed_terms |-> DocxRemovedTerms(doc, terms),
         \* the terms replaced in some paragraph or cell
         substituted |->
             UNION ({Substituted(doc.paragraphs[i], order) : i \in DOMAIN doc.paragraphs}
                    \cup {Substituted(doc.cells[i], order) : i \in DOMAIN doc.cells})]

(***************************************************************************)
(* Redactor runs: a redactor is handed a document and a RedactionRequest,  *)
(* built by a caller of its own or by redact_file from a request body,     *)
(* and is then run once more, with the same request, on what it saved.     *)
(***************************************************************************)
TermE == << >>
TermA == <<"a">>
TermB == <<"b">>
TermAB == <<"a", "b">>
TermBA == <<"b", "a">>
\* a term that is the block character itself
TermFill == <<Block>>

MatchedLists ==
    {<< >>, <<TermA>>, <<TermAB, TermA>>, <<TermB, TermE, TermB>>, <<TermFill>>}
CustomLists == {<< >>, <<TermE>>, <<TermBA>>, <<TermAB, TermBA>>}
PatternLists == {<< >>, <<TermE>>, <<TermB>>}

Reg(page, x, w) == [page |-> page, x |-> x, y |-> 0, w |-> w, h |-> 1]
RunRegionLists ==
    {<< >>, <<Reg(0, 0, 1)>>, <<Reg(2, 0, 1), Reg(0, 1, 2)>>, <<Reg(-1, 0, 1), Reg(1, 0, 1)>>}

PageTexts == {t \in Texts : Len(t) <= 2}
PdfDocs ==
    {[kind |-> "pdf", pages |-> ps] : ps \in UNION {[1..n -> PageTexts] : n \in 1..MaxPages}}

\* core properties of a document as uploaded, and of one without any
Cores ==
    {[author |-> "eve", comments |-> "draft", keywords |-> "secret",
      last_modified_by |-> bob, revision |-> 7, subject |-> "case", title |-> "memo"],
     [author |-> Null, comments |-> Null, keywords |-> Null,
      last_modified_by |-> << >>, revision |-> 1, subject |-> Null, title |-> Null]}

DocxDocs ==
    {[kind |-> "docx", paragraphs |-> <<p>>, cells |-> cs, core |-> c] :
        p \in Texts, cs \in {<< >>, <<TermAB>>, <<TermBA, TermB>>}, c \in Cores}

\* the lists of a request body, the regions already built
Payloads ==
    [regions : RunRegionLists, patterns_applied : PatternLists,
     custom_terms : CustomLists, matched_texts : MatchedLists]

\* redact.py lines 96-111: the RedactionRequest redact_file builds;
\* matched_texts is list({str(t) for t in matched_texts if t}), the set in
\* the order it yields
RequestsOf(payload, requester) ==
    {[regions |-> payload.regions,
      patterns_applied |-> payload.patterns_applied,
      custom_terms |-> payload.custom_terms,
      matched_texts |-> order,
      requested_by |-> requester] :
        order \in Orders({term \in Range(payload.matched_texts) : term # << >>})}

\* a RedactionRequest a caller builds itself from the same lists
DirectRequest(payload, requester) ==
    [regions |-> payload.regions,
     patterns_applied |-> payload.patterns_applied,
     custom_terms |-> payload.custom_terms,
     matched_texts |-> payload.matched_texts,
     requested_by |-> requester]

Ready(kind, via, payload, request, doc) ==
    [phase |-> "ready", kind |-> kind, via |-> via, payload |-> payload,
     request |-> request, doc |-> doc, first |-> None, second |-> None]

RedactorInit ==
    /\ Idle
    /\ \E payload \in Payloads, via \in {"direct", "redact_file"}, kind \in {"pdf", "docx"} :
         \E request \in (IF via = "direct" THEN {DirectRequest(payload, alice)}
                         ELSE RequestsOf(payload, alice)),
            doc \in (IF kind = "pdf" THEN PdfDocs
                     ELSE {d \in DocxDocs : Len(payload.regions) <= 1}) :
              run = Ready(kind, via, payload, request, doc)

PdfFirst ==
    /\ run.phase = "ready" /\ run.kind = "pdf"
    /\ run' = [run EXCEPT !.phase = "once",
                          !.first = PdfRedactor(run.doc, run.request)]
    /\ UNCHANGED pipeline

DocxFirst ==
    /\ run.phase = "ready" /\ run.kind = "docx"
    /\ \E order \in Orders(DocxTerms(run.request)) :
          run' = [run EXCEPT !.phase = "once",
                             !.first = DocxRedactor(run.doc, run.request, order)]
    /\ UNCHANGED pipeline

PdfSecond ==
    /\ run.phase = "once" /\ run.kind = "pdf"
    /\ run' = [run EXCEPT !.phase = "twice",
                          !.second = PdfRedactor(run.first.doc, run.request)]
    /\ UNCHANGED pipeline

DocxSecond ==
    /\ run.phase = "once" /\ run.kind = "docx"
    /\ \E order \in Orders(DocxTerms(run.request)) :
          run' = [run EXCEPT !.phase = "twice",
                             !.second = DocxRedactor(run.first.doc, run.request, order)]
    /\ UNCHANGED pipeline

RedactorNext == PdfFirst \/ DocxFirst \/ PdfSecond \/ DocxSecond

RedactorSpec == RedactorInit /\ [][RedactorNext]_vars

(***************************************************************************)
(* Calls of anchor_file: two calls, each with a hash, a size, a content id *)
(* and the state of the chain configuration at the call.                   *)
(***************************************************************************)
\* hash_hex: digests of two documents that agree in their first 16
\* characters and of a third one, strings one character shorter and longer
\* than a digest, the empty string, and None
Truncated(hash_hex, n) == [hash_hex EXCEPT !.len = n]
Hashes ==
    LET h1 == Sha256(Doc(Body1))
        h2 == Sha256(Redacted("pdf", Doc(Body1), << >>))
        h3 == Sha256(Doc(Body2))
    IN  {h1, h2, h3, Truncated(h1, 63), Truncated(h3, 65), Truncated(h3, 0), None}

Sizes == {0, 3}
Cids == {None, CidOf(<<"redacted", "1">>)}

\* the chain at the call: anchoring not enabled (a key, the registry address,
\* the RPC URL or web3 is missing, or the client cannot be built); enabled
\* and the transaction sent; enabled and a step of lines 101-126 failing or
\* finding nothing to work with
Chains == {"disabled", "sent", "no_client", "bad_hex", "rpc_error", "send_error"}

AnchorCalls == [hash_hex : Hashes, size : Sizes, cid : Cids, chain : Chains]

AnchorInit ==
    /\ Idle
    /\ \E a \in AnchorCalls, b \in AnchorCalls :
          run = [phase |-> "anchor", calls |-> <<a, b>>, results |-> << >>]

\* one call of anchor_file
AnchorCall ==
    /\ run.phase = "anchor"
    /\ Len(run.results) < Len(run.calls)
    /\ LET c == run.calls[Len(run.results) + 1]
       IN  run' = [run EXCEPT !.results =
                      Append(@, AnchorFile(c.hash_hex, c.size, c.cid, c.chain))]
    /\ UNCHANGED pipeline

AnchorNext == AnchorCall

AnchorSpec == AnchorInit /\ [][AnchorNext]_vars

(***************************************************************************)
(* api/rbac.py: the role requests.  The collection rbac_role_requests is a *)
(* list of documents (a document's _id is its place in the list), the      *)
(* collection rbac_role_assignments maps an address to a role.  A handler  *)
(* runs on a request thread; its steps are its database operations.        *)
(***************************************************************************)
\* the handler calls served in one behaviour
MaxRoleCalls == 3

ValidRoles == {"viewer", "editor", "admin"}
RequestedRoles == {"editor", "owner"}

\* the administrator who handles the requests
carol == <<"c">>

\* line 22: _normalize_address
NormalizeAddress(address) == Lower(address)

RequestDoc(address, requested_role) ==
    [address |-> NormalizeAddress(address), requested_role |-> requested_role,
     status |-> "pending", handled_by |-> << >>]

\* a thread that serves no role call
NoCall == [op |-> "none", pc |-> "idle", address |-> << >>, role |-> "", id |-> 0,
           doc |-> None, status |-> 0]

\* the ids a caller may name: those of the documents and one of none
RequestIds == 1..(MaxRoleCalls + 2)

\* before the first call: bob's request is pending
RbacInit ==
    /\ Idle
    /\ run = [phase |-> "rbac",
              requests |-> <<RequestDoc(bob, "editor")>>,
              assignments |-> << >>,
              granted |-> {},
              calls |-> 0,
              h |-> [t \in Threads |-> NoCall]]

Call(t, c) ==
    run' = [run EXCEPT !.h[t] = c, !.calls = IF run.h[t].pc = "idle" THEN @ + 1 ELSE @]

\* lines 91-103: submit_request up to its find_one
SubmitFindOne(t) ==
    /\ run.phase = "rbac" /\ run.h[t].pc = "idle" /\ run.calls < MaxRoleCalls
    /\ \E sub \in Subjects, requested_role \in RequestedRoles :
          LET c == [NoCall EXCEPT !.op = "submit", !.address = sub, !.role = requested_role]
              existing == \E id \in DOMAIN run.requests :
                             /\ run.requests[id].address = NormalizeAddress(sub)
                             /\ run.requests[id].status = "pending"
          IN  IF requested_role \notin ValidRoles \/ existing
              THEN Call(t, [c EXCEPT !.pc = "done", !.status = 400])
              ELSE Call(t, [c EXCEPT !.pc = "insert"])
    /\ UNCHANGED pipeline

\* lines 105-115: submit_request's insert_one and its answer
SubmitInsertOne(t) ==
    /\ run.phase = "rbac" /\ run.h[t].op = "submit" /\ run.h[t].pc = "insert"
    /\ run' = [run EXCEPT
                  !.requests = Append(@, RequestDoc(run.h[t].address, run.h[t].role)),
                  !.h[t].id = Len(run.requests) + 1,
                  !.h[t].pc = "done", !.h[t].status = 201]
    /\ UNCHANGED pipeline

\* lines 118-127 and 133-136 (183-186): _load_request_or_404 and the check of
\* the status read
Load(t, op) ==
    /\ run.phase = "rbac" /\ run.h[t].pc = "idle" /\ run.calls < MaxRoleCalls
    /\ \E id \in RequestIds :
          LET c == [NoCall EXCEPT !.op = op, !.id = id, !.address = carol]
          IN  IF id \notin DOMAIN run.requests
              THEN Call(t, [c EXCEPT !.pc = "done", !.status = 404])
              ELSE IF run.requests[id].status # "pending"
                   THEN Call(t, [c EXCEPT !.pc = "done", !.status = 400,
                                          !.doc = run.requests[id]])
              ELSE Call(t, [c EXCEPT !.pc = "update_request", !.doc = run.requests[id]])
    /\ UNCHANGED pipeline

\* lines 143-153 (191-202): update_one by _id sets the status
UpdateRequest(t, op, status, next) ==
    /\ run.phase = "rbac" /\ run.h[t].op = op /\ run.h[t].pc = "update_request"
    /\ run' = [run EXCEPT
                  !.requests[run.h[t].id].status = status,
                  !.requests[run.h[t].id].handled_by = run.h[t].address,
                  !.h[t].pc = next]
    /\ UNCHANGED pipeline

\* lines 165-177 (203-204): the request is read again and answered
Respond(t, op) ==
    /\ run.phase = "rbac" /\ run.h[t].op = op /\ run.h[t].pc = "respond"
    /\ run' = [run EXCEPT !.h[t].doc = run.requests[run.h[t].id],
                          !.h[t].pc = "done", !.h[t].status = 200]
    /\ UNCHANGED pipeline

ApproveLoad(t) == Load(t, "approve")
ApproveUpdateRequest(t) == UpdateRequest(t, "approve", "approved", "update_assignment")

\* lines 154-164: the upsert of the assignment, for the address and the role
\* read at the load
ApproveUpdateAssignment(t) ==
    /\ run.phase = "rbac" /\ run.h[t].op = "approve" /\ run.h[t].pc = "update_assignment"
    /\ run' = [run EXCEPT
                  !.assignments = (run.h[t].doc.address :>
                                      [role |-> run.h[t].doc.requested_role,
                                       assigned_by |-> run.h[t].address]) @@ @,
                  !.granted = @ \cup {run.h[t].id},
                  !.h[t].pc = "respond"]
    /\ UNCHANGED pipeline

ApproveRespond(t) == Respond(t, "approve")

DenyLoad(t) == Load(t, "deny")
DenyUpdateRequest(t) == UpdateRequest(t, "deny", "denied", "respond")
DenyRespond(t) == Respond(t, "deny")

\* the answer is out and the thread is free
RoleRetire(t) ==
    /\ run.phase = "rbac" /\ run.h[t].pc = "done"
    /\ run' = [run EXCEPT !.h[t] = NoCall]
    /\ UNCHANGED pipeline

RbacNext ==
    \/ \E t \in Threads : SubmitFindOne(t)
    \/ \E t \in Threads : SubmitInsertOne(t)
    \/ \E t \in Threads : ApproveLoad(t)
    \/ \E t \in Threads : ApproveUpdateRequest(t)
    \/ \E t \in Threads : ApproveUpdateAssignment(t)
    \/ \E t \in Threads : ApproveRespond(t)
    \/ \E t \in Threads : DenyLoad(t)
    \/ \E t \in Threads : DenyUpdateRequest(t)
    \/ \E t \in Threads : DenyRespond(t)
    \/ \E t \in Threads : RoleRetire(t)

RbacSpec == RbacInit /\ [][RbacNext]_vars

(***************************************************************************)
(* Properties.                                                             *)
(***************************************************************************)
CatalogOps(ops) == SelectSeq(ops, LAMBDA o : o \in {"find_one", "insert_one"})
Finished(t) == pc[t] = "done"
FilesOf(t) == {p \in DOMAIN disk : disk[p].by = loc[t].serial}

\* C1: a request that succeeds has added exactly one record to the catalog,
\* by the last catalog operation it made; a request that fails has added
\* none.  The catalog changes only by the one insert of a request that has
\* not failed and that succeeds with it, and a request's status, once set,
\* stays.
C1_OneRecord ==
    \A t \in Threads : Finished(t) =>
        IF loc[t].status = 200
        THEN /\ Cardinality(loc[t].made) = 1
             /\ loc[t].made \subseteq DOMAIN catalog
             /\ CatalogOps(loc[t].ops) = <<"find_one", "insert_one">>
        ELSE /\ loc[t].made = {}
             /\ "insert_one" \notin Range(loc[t].ops)

C1_InsertStep ==
    /\ catalog' # catalog =>
          \E t \in Threads :
             /\ pc[t] = "insert" /\ loc[t].status = 0
             /\ loc'[t].status = 200
             /\ DOMAIN catalog' = DOMAIN catalog \cup loc'[t].made
             /\ Cardinality(DOMAIN catalog') = Cardinality(DOMAIN catalog) + 1
    /\ \A t \in Threads :
          (loc[t].status # 0 /\ ~Finished(t)) =>
              (loc'[t].status = loc[t].status /\ loc'[t].made = loc[t].made)

C1_ExactlyOneRecordOnSuccess == []C1_OneRecord /\ [][C1_InsertStep]_vars

\* a request failed at the insert after an earlier one succeeded: the catalog
\* holds one record more than at the start
C1_Witness ==
    \E t \in Threads :
        /\ Finished(t) /\ loc[t].status = 500 /\ "insert" \in loc[t].faults
        /\ Cardinality(DOMAIN catalog) = Cardinality(DOMAIN InitCatalog) + 1

\* C2: no step changes or removes a record or an encrypted blob that exists;
\* so the parent's record is what the request read, and its blob what it was,
\* during and after every request.
C2_ParentAsRead ==
    \A t \in Threads : loc[t].canonical_id # Null =>
        /\ loc[t].canonical_id \in DOMAIN catalog
        /\ catalog[loc[t].canonical_id] = loc[t].rec
        /\ loc[t].rec.enc_filename \in DOMAIN blobs

C2_FrameStep ==
    /\ \A id \in DOMAIN catalog : id \in DOMAIN catalog' /\ catalog'[id] = catalog[id]
    /\ \A p \in DOMAIN blobs : p \in DOMAIN blobs' /\ blobs'[p] = blobs[p]

C2_ParentNeverMutated == []C2_ParentAsRead /\ [][C2_FrameStep]_vars

\* a redaction of f1 succeeded, and f1's record and blob are the initial ones
C2_Witness ==
    \E t \in Threads :
        /\ Finished(t) /\ loc[t].status = 200 /\ loc[t].canonical_id = "f1"
        /\ catalog["f1"] = InitCatalog["f1"]
        /\ blobs[<<"e1">>] = InitBlobs[<<"e1">>]

\* C3: when a request has ended, on whatever path, and no removal failed in
\* its cleanup, no temp file it wrote is on the disk.
C3_TempFilesRemoved ==
    \A t \in Threads :
        (Finished(t) /\ "delete" \notin loc[t].faults) => FilesOf(t) = {}

\* a wrong passphrase: the decryption failed, left a partial file, and the
\* cleanup removed it
C3_Witness ==
    \E t \in Threads :
        /\ Finished(t) /\ loc[t].status = 500
        /\ loc[t].ops = <<"find_one", "decrypt", "remove">>
        /\ FilesOf(t) = {}

\* the record a request names, when there is one
Parent(r) == LookupFile(r.file_id).rec

\* C4: a request whose requester is not the owner of the record it names has
\* no effect: after the lookup it does nothing (no decryption, no temp file,
\* no blob, no record); and, its body carrying the passphrase the claim
\* speaks of, it is answered 403 (a body without one is answered 400).
C4_ForbiddenNoEffect ==
    \A t \in Threads :
        (/\ Finished(t)
         /\ LookupFile(req[t].file_id).found
         /\ Requester(req[t].sub) # Parent(req[t]).owner)
        => /\ loc[t].status = IF req[t].passphrase = Null THEN 400 ELSE 403
           /\ Len(loc[t].ops) <= 1 /\ Range(loc[t].ops) \subseteq {"find_one"}
           /\ FilesOf(t) = {}
           /\ loc[t].tmp_plain = << >>
           /\ loc[t].relative_enc_name = << >>
           /\ loc[t].made = {}

\* bob asks for alice's f1 with the right passphrase and gets 403
C4_Witness ==
    \E t \in Threads :
        /\ Finished(t) /\ req[t].file_id = "f1" /\ req[t].sub = bob
        /\ req[t].passphrase = GoodPass /\ loc[t].status = 403

\* C5: a request whose token subject is the owner stored on the record it
\* names is never answered 403; with a complete body and the blob in place it
\* goes on past the ownership check.
C5_OwnerPasses ==
    \A t \in Threads :
        (/\ req[t] # NoRequest
         /\ LookupFile(req[t].file_id).found
         /\ req[t].sub = Parent(req[t]).owner)
        => /\ loc[t].status # 403
           /\ (req[t].passphrase # Null /\ Parent(req[t]).enc_filename \in DOMAIN blobs)
                 => loc[t].canonical_id = req[t].file_id

\* the paths a request in progress stages its plaintext at
TmpPaths(t) == {loc[t].tmp_plain, loc[t].tmp_redacted}

\* C6: two requests in progress at the same time stage their plaintext at
\* four different paths.
C6_TempPathsDistinct ==
    \A t, u \in Threads :
        (t # u /\ Active(t) /\ Active(u)) => TmpPaths(t) \cap TmpPaths(u) = {}

\* following parent_file_id from a record, at most fuel times: TRUE when a
\* record without a parent is reached
RECURSIVE ReachesRoot(_, _)
ReachesRoot(id, fuel) ==
    IF id \notin DOMAIN catalog THEN FALSE
    ELSE IF catalog[id].parent_file_id = Null THEN TRUE
    ELSE IF fuel = 0 THEN FALSE
    ELSE ReachesRoot(catalog[id].parent_file_id, fuel - 1)

\* C7: the record a successful request inserted names the request's file_id
\* as its parent and has the parent's owner; every record the pipeline made
\* has a parent, and from every record the parent links lead to a record
\* without a parent.
C7_Lineage ==
    /\ \A t \in Threads : (Finished(t) /\ loc[t].status = 200) =>
          \A id \in loc[t].made :
             /\ catalog[id].parent_file_id = req[t].file_id
             /\ catalog[id].owner = Parent(req[t]).owner
    /\ \A id \in DOMAIN catalog \ DOMAIN InitCatalog :
          /\ catalog[id].parent_file_id \in DOMAIN catalog \ {id}
          /\ catalog[id].owner = catalog[catalog[id].parent_file_id].owner
    /\ \A id \in DOMAIN catalog : ReachesRoot(id, Cardinality(DOMAIN catalog))

\* a successor made by the pipeline was redacted again
C7_Witness ==
    \E t \in Threads :
        /\ Finished(t) /\ loc[t].status = 200 /\ req[t].file_id = "n1"
        /\ \E id \in loc[t].made : catalog[id].parent_file_id = "n1"
        /\ catalog["n1"].parent_file_id \in DOMAIN InitCatalog

\* C8: after a successful request the hash on the successor record, the hash
\* in the response and the hash handed to the anchoring are one value: the
\* SHA-256 of the plaintext that was encrypted into the successor's blob.
C8_OneHash ==
    \A t \in Threads : (Finished(t) /\ loc[t].status = 200) =>
        \A id \in loc[t].made :
           /\ catalog[id].sha256 = loc[t].response.hash
           /\ catalog[id].sha256 = loc[t].anchored.hash
           /\ catalog[id].sha256 = Sha256(blobs[catalog[id].enc_filename].plain)

\* C9: a publication or an anchoring that raised leaves its field None and
\* does not end the request: after a failed publication the anchoring is
\* called, with no content id; and the request, when the insert goes through,
\* ends in success with the record's and the response's field None.
C9_BestEffort ==
    \A t \in Threads :
        /\ "publish" \in loc[t].faults =>
              /\ loc[t].cid = None
              /\ pc[t] \in {"anchor", "insert", "clean1", "clean2", "done"}
              /\ pc[t] # "anchor" =>
                    (loc[t].anchored # None /\ loc[t].anchored.cid = None)
        /\ "anchor" \in loc[t].faults =>
              /\ loc[t].anchor_tx = None
              /\ pc[t] \in {"insert", "clean1", "clean2", "done"}
        /\ (/\ Finished(t)
            /\ loc[t].faults \cap {"publish", "anchor"} # {}
            /\ "insert" \notin loc[t].faults) =>
              /\ loc[t].status = 200
              /\ loc[t].response.status = "success"
              /\ \A id \in loc[t].made :
                    /\ "publish" \in loc[t].faults =>
                          (catalog[id].cid = None /\ loc[t].response.new_cid = None)
                    /\ "anchor" \in loc[t].faults =>
                          (catalog[id].anchor_tx = None /\ loc[t].response.anchor_tx = None)

\* both calls raised and the request succeeded
C9_Witness ==
    \E t \in Threads :
        /\ Finished(t) /\ {"publish", "anchor"} \subseteq loc[t].faults
        /\ loc[t].status = 200 /\ loc[t].made # {}

\* what is wrong with a request
Defects(r) ==
    LET found == LookupFile(r.file_id)
        rec == found.rec
    IN  {d \in {"missing_field"} : r.file_id = Null \/ r.passphrase = Null}
        \cup {d \in {"not_found"} : r.file_id # Null /\ ~found.found}
        \cup {d \in {"malformed_region"} :
                 \E i \in DOMAIN r.redaction_regions : ~RegionOk(r.redaction_regions[i])}
        \cup (IF ~found.found THEN {}
              ELSE {d \in {"forbidden"} : Requester(r.sub) # rec.owner}
                   \cup {d \in {"gone"} : rec.enc_filename \notin DOMAIN blobs}
                   \cup {d \in {"unsupported"} : CreateRedactor(rec.original_name) = ""}
                   \cup {d \in {"bad_passphrase"} :
                            /\ r.passphrase # Null
                            /\ rec.enc_filename \in DOMAIN blobs
                            /\ ~DecryptOk(blobs[rec.enc_filename], r.passphrase, rec.aad)})

\* the status the specification assigns to a failure cause
Expected(d) ==
    CASE d = "missing_field" -> 400
      [] d = "malformed_region" -> 400
      [] d = "unsupported" -> 415
      [] d = "forbidden" -> 403
      [] d = "gone" -> 410
      [] d = "not_found" -> 404
      [] d = "bad_passphrase" -> 500

\* C10: a request with exactly one defect is answered with the status of
\* that defect.
C10_StatusOfDefect ==
    \A t \in Threads :
        (Finished(t) /\ Cardinality(Defects(req[t])) = 1) =>
            \A d \in Defects(req[t]) : loc[t].status = Expected(d)

\* the owner's well-formed request on a text file is answered 415
C10_Witness ==
    \E t \in Threads :
        /\ Finished(t) /\ Defects(req[t]) = {"unsupported"}
        /\ "decrypt" \in Range(loc[t].ops) /\ loc[t].status = 415

\* a request's region list has a malformed entry
Malformed(r) ==
    \E i \in DOMAIN r.redaction_regions : ~RegionOk(r.redaction_regions[i])

\* C11: a request with a malformed region entry, wherever the entry stands
\* and whatever the other entries are, runs no redactor, writes no blob and
\* inserts no record; it never succeeds, and it is answered 400 when nothing
\* else is wrong with it that is checked before the regions.
C11_MalformedRegionRejected ==
    \A t \in Threads :
        (req[t] # NoRequest /\ Malformed(req[t])) =>
            /\ Range(loc[t].ops) \subseteq {"find_one", "decrypt", "remove"}
            /\ loc[t].relative_enc_name = << >>
            /\ loc[t].made = {}
            /\ loc[t].redactor = ""
            /\ loc[t].status \in {0, 400, 403, 404, 410, 500}
            /\ (Finished(t) /\ Defects(req[t]) \subseteq {"malformed_region", "unsupported"})
                  => loc[t].status = 400
            /\ pc[t] \in {"decrypt", "redact", "clean1", "clean2", "done"}

\* a list whose second entry is no mapping, between two well-formed entries,
\* was rejected after the decryption, and the staged plaintext was removed
C11_Witness ==
    \E t \in Threads :
        /\ Finished(t) /\ req[t].redaction_regions = <<RawFar, RawScalar, RawGood>>
        /\ loc[t].status = 400
        /\ loc[t].ops = <<"find_one", "decrypt", "remove">>

\* C12: the AAD handed to the decryption, the AAD handed to the
\* re-encryption (the one the new blob is sealed with) and the AAD on the
\* successor record are the AAD on the parent record; the re-encryption uses
\* the passphrase the decryption used, the request's.
C12_SameAadAndPassphrase ==
    \A t \in Threads : loc[t].canonical_id # Null =>
        LET aad == catalog[loc[t].canonical_id].aad
        IN  /\ loc[t].decrypt_call # None =>
                  /\ loc[t].decrypt_call.aad = aad
                  /\ loc[t].decrypt_call.passphrase = req[t].passphrase
            /\ loc[t].encrypt_call # None =>
                  /\ loc[t].decrypt_call # None
                  /\ loc[t].encrypt_call.aad = aad
                  /\ loc[t].encrypt_call.passphrase = loc[t].decrypt_call.passphrase
                  /\ blobs[loc[t].relative_enc_name].aad = aad
                  /\ blobs[loc[t].relative_enc_name].passphrase = req[t].passphrase
            /\ \A id \in loc[t].made : catalog[id].aad = aad

\* a successor of f1 was redacted again: its successor carries f1's AAD, and
\* so does the new blob
C12_Witness ==
    \E t \in Threads :
        /\ Finished(t) /\ loc[t].status = 200 /\ req[t].file_id = "f2"
        /\ loc[t].encrypt_call # None
        /\ \E id \in loc[t].made :
              /\ catalog[id].aad = InitCatalog["f1"].aad
              /\ blobs[catalog[id].enc_filename].aad = InitCatalog["f1"].aad

\* C13: a step of the cleanup, failing or not, leaves the request's status,
\* its response, the record it inserted and the catalog as they are, and the
\* first turn of the loop is always followed by the second; so a request
\* with a failed removal ends with the outcome it had when it left the try
\* block.
C13_CleanupStep ==
    \A t \in Threads :
        (pc[t] \in {"clean1", "clean2"} /\ pc'[t] # pc[t]) =>
            /\ loc'[t].status = loc[t].status
            /\ loc'[t].response = loc[t].response
            /\ loc'[t].made = loc[t].made
            /\ catalog' = catalog
            /\ pc'[t] = IF pc[t] = "clean1" THEN "clean2" ELSE "done"

C13_Outcome ==
    \A t \in Threads :
        (Finished(t) /\ "delete" \in loc[t].faults) =>
            /\ loc[t].status # 0
            /\ loc[t].status = 200 <=> loc[t].made # {}
            /\ loc[t].status = 200 <=> loc[t].response # None
            /\ loc[t].made \subseteq DOMAIN catalog
            /\ loc[t].faults \cap {"redactor", "encrypt", "insert", "lost_file"} # {}
                  => loc[t].status = 500

C13_CleanupFailureIsSilent == []C13_Outcome /\ [][C13_CleanupStep]_vars

\* the removal of the staged plaintext failed and the redacted output was
\* removed all the same; the request succeeded
C13_Witness ==
    \E t \in Threads :
        /\ Finished(t) /\ "delete" \in loc[t].faults /\ loc[t].status = 200
        /\ loc[t].tmp_plain \in DOMAIN disk
        /\ loc[t].tmp_redacted \notin DOMAIN disk
        /\ loc[t].ops[Len(loc[t].ops)] = "remove"

\* a redactor has run on the document of the run
Ran(kind) == run.phase \in {"once", "twice"} /\ run.kind = kind
RanTwice(kind) == run.phase = "twice" /\ run.kind = kind

\* the term occurs in some of the texts
OccursIn(texts, term) ==
    \E i \in DOMAIN texts : \E j \in 1..Len(texts[i]) : OccursAt(texts[i], term, j)

\* the list is in strictly ascending order: sorted, each entry once
Ascending(list) == \A i, j \in DOMAIN list : i < j => StrLess(list[i], list[j])

\* C14: the removed_terms of a PDF redaction are the non-empty matched_texts
\* that occur on some page of the document the redactor was given, in
\* ascending order and each once; nothing else is listed, whatever
\* custom_terms and patterns_applied hold.
C14_PdfRemovedTermsAreFound ==
    /\ Ran("pdf") =>
          /\ Range(run.first.removed_terms) =
                {t \in Range(run.request.matched_texts) :
                    t # << >> /\ OccursIn(run.doc.pages, t)}
          /\ Ascending(run.first.removed_terms)
    /\ RanTwice("pdf") =>
          /\ Range(run.second.removed_terms) =
                {t \in Range(run.request.matched_texts) :
                    t # << >> /\ OccursIn(run.first.doc.pages, t)}
          /\ Ascending(run.second.removed_terms)

\* "ab" and "a" were searched for on pages that hold "a" and not "ab", and a
\* custom term occurs on a page: only "a" is listed
C14_Witness ==
    /\ Ran("pdf")
    /\ run.request.matched_texts = <<TermAB, TermA>>
    /\ run.first.removed_terms = <<TermA>>
    /\ \E c \in Range(run.request.custom_terms) : c # << >> /\ OccursIn(run.doc.pages, c)

\* the regions of a list that lie on a page of the document
InBounds(regions, page_count) ==
    {j \in DOMAIN regions : 0 <= regions[j].page /\ regions[j].page < page_count}

\* C15: a region whose page is outside [0, pageCount) registers no mark and
\* raises nothing, and the removed_terms are what they are without any
\* region; every region inside the bounds is marked on its page over
\* [x, y, x+w, y+h].
C15_OutOfBoundsRegionSkipped ==
    Ran("pdf") =>
        LET regions == run.request.regions
            n == Len(run.doc.pages)
            marks == run.first.region_marks
        IN  /\ ~run.first.error
            /\ \A j \in InBounds(regions, n) :
                  Rect(regions[j].x, regions[j].y, regions[j].x + regions[j].w,
                       regions[j].y + regions[j].h) \in marks[regions[j].page + 1]
            /\ \A i \in DOMAIN marks : \A m \in marks[i] :
                  \E j \in InBounds(regions, n) :
                     /\ regions[j].page = i - 1
                     /\ m.x0 = regions[j].x /\ m.y0 = regions[j].y
            /\ run.first.removed_terms =
                  PdfRedactor(run.doc, [run.request EXCEPT !.regions = << >>]).removed_terms

\* a list with a region before the first page and a region on the second
\* page of a two-page document: one mark, on the second page
C15_Witness ==
    /\ Ran("pdf")
    /\ run.request.regions = <<Reg(-1, 0, 1), Reg(1, 0, 1)>>
    /\ Len(run.doc.pages) = 2
    /\ run.first.region_marks = <<{}, {Rect(0, 0, 1, 1)}>>
    /\ run.first.removed_terms # << >>

\* the regions that were applied
TotalRegionsApplied(regions, page_count) == Cardinality(InBounds(regions, page_count))

\* C16: the total_regions of a PDF redaction is the number of regions that
\* were applied: those with a page of the document, for which a mark was
\* registered.
C16_TotalRegionsIsApplied ==
    Ran("pdf") =>
        run.first.total_regions =
            TotalRegionsApplied(run.request.regions, Len(run.doc.pages))

\* the texts of a document: the pages of a PDF, the paragraphs and the table
\* cells of a DOCX
TextsOf(doc) == IF doc.kind = "pdf" THEN doc.pages ELSE doc.paragraphs \o doc.cells

\* C17: when the output of a redaction is redacted again with the same
\* request, by either redactor, every term the second pass lists as removed
\* occurs in the document the second pass was given.
C17_SecondPassListsOnlyWhatOccurs ==
    (RanTwice("pdf") \/ RanTwice("docx")) =>
        \A term \in Range(run.second.removed_terms) :
            term # << >> => OccursIn(TextsOf(run.first.doc), term)

\* C18: a DOCX redaction lists a term as removed exactly when the term was
\* replaced in some paragraph or table cell.
C18_DocxRemovedTermsAreSubstituted ==
    Ran("docx") => Range(run.first.removed_terms) = run.first.substituted

\* C19: a DOCX redaction keeps the length of every paragraph and cell; a
\* character that changed became a block character and lay inside an
\* occurrence of a term in the text as it was; a character outside every
\* occurrence is as it was.
C19_DocxBlockFillKeepsLength ==
    Ran("docx") =>
        LET before == TextsOf(run.doc)
            after == TextsOf(run.first.doc)
            terms == DocxTerms(run.request)
        IN  /\ Len(after) = Len(before)
            /\ \A i \in DOMAIN before :
                  /\ Len(after[i]) = Len(before[i])
                  /\ \A k \in DOMAIN before[i] :
                        after[i][k] # before[i][k] =>
                            /\ after[i][k] = Block
                            /\ \E term \in terms : \E j \in 1..k :
                                  /\ OccursAt(before[i], term, j)
                                  /\ k < j + Len(term)

\* the paragraph "bab" with the term "ab" replaced is saved as "b##"
C19_Witness ==
    /\ Ran("docx")
    /\ run.doc.paragraphs = << <<"b", "a", "b">> >>
    /\ TermAB \in run.first.substituted
    /\ run.first.doc.paragraphs = << <<"b", Block, Block>> >>

\* C20: the term set of a DOCX redaction reached through redact_file holds
\* no empty string, and its removed_terms list none and list each term once.
C20_NoEmptyTerm ==
    (Ran("docx") /\ run.via = "redact_file") =>
        /\ << >> \notin DocxTerms(run.request)
        /\ << >> \notin Range(run.first.removed_terms)
        /\ Ascending(run.first.removed_terms)

\* C21: for a fixed document and a fixed term set, the text a DOCX redaction
\* saves for every paragraph and table cell is the same whatever order the
\* term set yields its terms in.
C21_OrderIndependent ==
    Ran("docx") =>
        \A order \in Orders(DocxTerms(run.request)) :
            TextsOf(DocxRedactor(run.doc, run.request, order).doc) = TextsOf(run.first.doc)

\* C22: after every DOCX redaction, also one with an empty term set, the
\* saved document has no author, subject, title, comments or keywords, its
\* last_modified_by is the requester of the request and its revision is 1,
\* whatever the source document carried.
C22_MetadataScrubbed ==
    Ran("docx") =>
        LET core == run.first.doc.core
        IN  /\ core.author = Null /\ core.subject = Null /\ core.title = Null
            /\ core.comments = Null /\ core.keywords = Null
            /\ core.last_modified_by = run.request.requested_by
            /\ core.revision = 1

\* a document with an author, last modified by someone else at revision 7,
\* was redacted with an empty term set
C22_Witness ==
    /\ Ran("docx")
    /\ DocxTerms(run.request) = {}
    /\ run.doc.core.author # Null
    /\ run.doc.core.revision = 7
    /\ run.doc.core.last_modified_by # run.request.requested_by
    /\ run.first.doc.core.author = Null

\* the names with a PDF and with a DOCX extension, in either spelling
PdfNames == {NamePdf, NamePDF}
DocxNames == {NameDocx, NameDOCX}

\* C23: the redactor a request runs is the PDF redactor for a name ending in
\* .pdf and the DOCX redactor for a name ending in .docx, in any spelling of
\* the extension and whatever else the request holds; such a name is never
\* answered 415; for any other name no redactor runs, no blob is written
\* and no record is inserted, and the request that got as far as the choice
\* is answered 415.
C23_RedactorByExtension ==
    \A t \in Threads :
        (req[t] # NoRequest /\ loc[t].tmp_plain # << >>) =>
            LET name == loc[t].rec.original_name
            IN  /\ loc[t].tmp_plain[3] = name
                /\ "redact" \in Range(loc[t].ops) => loc[t].redactor # ""
                /\ loc[t].redactor = "pdf" => name \in PdfNames
                /\ loc[t].redactor = "docx" => name \in DocxNames
                /\ name \in PdfNames \cup DocxNames => loc[t].status # 415
                /\ name \notin PdfNames \cup DocxNames =>
                      /\ loc[t].redactor = ""
                      /\ Range(loc[t].ops) \subseteq {"find_one", "decrypt", "remove"}
                      /\ loc[t].relative_enc_name = << >>
                      /\ loc[t].made = {}
                      /\ (/\ pc[t] \in {"clean1", "clean2", "done"}
                          /\ Defects(req[t]) = {"unsupported"}) => loc[t].status = 415

\* a DOCX whose extension is spelled ".Docx" was redacted by the DOCX
\* redactor and its successor inserted
C23_Witness ==
    \E t \in Threads :
        /\ Finished(t) /\ loc[t].status = 200
        /\ loc[t].rec.original_name = NameDOCX
        /\ loc[t].redactor = "docx"

\* C24: a call of anchor_file returns, and never raises: None for a hash
\* that is missing, empty or not 64 characters long; else, with anchoring
\* not enabled, a simulated reference that holds the first 16 characters of
\* the hash and the size and nothing else, so that two calls that agree in
\* these get the same reference whatever their content ids; else the
\* transaction hash when the transaction was sent and None when a step of
\* the on-chain call failed.
C24_AnchorFileResult ==
    run.phase = "anchor" =>
        /\ \A i \in DOMAIN run.results :
              LET c == run.calls[i]
                  r == run.results[i]
                  valid == c.hash_hex # None /\ c.hash_hex.len = 64
              IN  /\ r.kind \in {"none", "simulated", "tx"}
                  /\ ~valid => r = None
                  /\ (valid /\ c.chain = "disabled") =>
                        r = [kind |-> "simulated", hash16 |-> c.hash_hex.head,
                             size |-> c.size]
                  /\ (valid /\ c.chain = "sent") => r.kind = "tx"
                  /\ (valid /\ c.chain \notin {"disabled", "sent"}) => r = None
        /\ \A i, j \in DOMAIN run.results :
              LET c == run.calls[i]
                  d == run.calls[j]
              IN  (/\ run.results[i].kind = "simulated"
                   /\ run.results[j].kind = "simulated"
                   /\ c.hash_hex.head = d.hash_hex.head /\ c.size = d.size)
                      => run.results[i] = run.results[j]

\* two calls without anchoring enabled, with different digests that agree in
\* their first 16 characters, the same size and different content ids, got
\* the same simulated reference
C24_Witness ==
    /\ run.phase = "anchor" /\ Len(run.results) = 2
    /\ run.calls[1].hash_hex # run.calls[2].hash_hex
    /\ run.calls[1].cid # run.calls[2].cid
    /\ run.results[1].kind = "simulated"
    /\ run.results[1] = run.results[2]

\* the steps of a request that touch the catalog, the blob store or a
\* collaborator, in the order the claim gives them, and the failure causes
\* of a request in the order of the steps that find them
StepOrder == <<"find_one", "decrypt", "redact", "encrypt", "publish", "anchor", "insert_one">>
DefectOrder ==
    <<"missing_field", "not_found", "forbidden", "gone", "bad_passphrase",
      "malformed_region", "unsupported">>
Steps(ops) == SelectSeq(ops, LAMBDA o : o # "remove")
IsPrefix(s, u) == Len(s) <= Len(u) /\ s = SubSeq(u, 1, Len(s))
Earliest(D) ==
    DefectOrder[CHOOSE i \in DOMAIN DefectOrder :
                   /\ DefectOrder[i] \in D
                   /\ \A j \in 1..(i - 1) : DefectOrder[j] \notin D]

\* the steps a request has taken are an initial part of the fixed order,
\* each taken once, and the temp files are removed after them
C25_InOrder ==
    \A t \in Threads :
        /\ IsPrefix(Steps(loc[t].ops), StepOrder)
        /\ \A i, j \in DOMAIN loc[t].ops :
              (i < j /\ loc[t].ops[i] = "remove") => loc[t].ops[j] = "remove"

\* a request with several defects is answered with the status of the one
\* that the earliest step finds
C25_FirstDefect ==
    \A t \in Threads :
        (Finished(t) /\ Defects(req[t]) # {}) =>
            loc[t].status = Expected(Earliest(Defects(req[t])))

\* once a request has failed it takes no further step but the removal of
\* its temp files, and its status stays
C25_FatalStops ==
    \A t \in Threads :
        (loc[t].status \notin {0, 200} /\ pc[t] # "done") =>
            /\ loc'[t].status = loc[t].status
            /\ Steps(loc'[t].ops) = Steps(loc[t].ops)
            /\ loc'[t].made = loc[t].made
            /\ pc'[t] \in {"clean1", "clean2", "done"}

\* C25: redact_file takes its steps in the order validate, resolve, owner
\* check, blob check, decrypt, normalize regions, select redactor, redact,
\* re-encrypt, publish, anchor, insert; a request with several defects is
\* answered with the error of the earliest failing step, and no step follows
\* a fatal failure.
C25_FixedOrderFatalFirst ==
    [](C25_InOrder /\ C25_FirstDefect) /\ [][C25_FatalStops]_vars

\* a request with a wrong passphrase, a malformed region and an unsupported
\* file type was answered with the decryption's error
C25_Witness ==
    \E t \in Threads :
        /\ Finished(t)
        /\ {"bad_passphrase", "malformed_region", "unsupported"} \subseteq Defects(req[t])
        /\ loc[t].status = 500
        /\ Steps(loc[t].ops) = <<"find_one", "decrypt">>

\* a term the replacement can take out of a text: it is not empty and holds
\* no block character
Removable(term) == term # << >> /\ Block \notin Range(term)

\* C26 (as stated): after a DOCX redaction no term of the term set is a
\* substring of the text of any paragraph or table cell of the saved
\* document.
C26_NoTermRemainsAtAll ==
    Ran("docx") =>
        \A term \in DocxTerms(run.request) :
            \A i \in DOMAIN TextsOf(run.first.doc) :
                ~Contains(TextsOf(run.first.doc)[i], term)

\* C26 (amended): after a DOCX redaction no term of the term set that is not
\* empty and holds no block character is a substring of the text of any
\* paragraph or table cell of the saved document, overlapping terms and
\* terms within terms included.
C26_NoTermRemains ==
    Ran("docx") =>
        \A term \in DocxTerms(run.request) :
            Removable(term) =>
                \A i \in DOMAIN TextsOf(run.first.doc) :
                    ~Contains(TextsOf(run.first.doc)[i], term)

\* a paragraph held two overlapping terms, and neither is left in it
C26_Witness ==
    /\ Ran("docx")
    /\ {TermAB, TermBA} \subseteq DocxTerms(run.request)
    /\ run.doc.paragraphs = << <<"a", "b", "a">> >>
    /\ Block \in Range(run.first.doc.paragraphs[1])

\* C27: under every interleaving, the blob of the successor a request made
\* holds the redaction, by that request's redactor and regions, of the
\* plaintext of that request's own parent.
C27_SuccessorFromOwnParent ==
    \A t \in Threads : (Finished(t) /\ loc[t].status = 200) =>
        \A id \in loc[t].made :
            blobs[catalog[id].enc_filename].plain =
                Redacted(loc[t].redactor, blobs[loc[t].rec.enc_filename].plain,
                         loc[t].regions)

\* C28: a request that ended in failure has left no blob in the blob store
\* and has called neither the publication nor the anchoring; the blob a
\* finished request wrote is the blob of a catalog record.
C28_FailureLeavesNoBlob ==
    \A t \in Threads : Finished(t) =>
        /\ loc[t].status # 200 =>
              /\ loc[t].relative_enc_name \notin DOMAIN blobs
              /\ Range(loc[t].ops) \cap {"publish", "anchor"} = {}
        /\ loc[t].relative_enc_name \in DOMAIN blobs =>
              \E id \in DOMAIN catalog :
                  catalog[id].enc_filename = loc[t].relative_enc_name

\* the role calls in progress
Handling(t) == run.h[t].pc \notin {"idle", "done"}

\* the status of a request document only goes from pending to approved or
\* to denied, and then stays
C29_StatusStep ==
    run.phase = "rbac" =>
        \A id \in DOMAIN run.requests :
            /\ run'.requests[id].status # run.requests[id].status =>
                  /\ run.requests[id].status = "pending"
                  /\ run'.requests[id].status \in {"approved", "denied"}
            /\ run.requests[id].status # "pending" =>
                  run'.requests[id] = run.requests[id]

\* with no call in progress, the requests an approval wrote an assignment
\* for are approved
C29_GrantedIsApproved ==
    (run.phase = "rbac" /\ \A t \in Threads : ~Handling(t)) =>
        \A id \in run.granted : run.requests[id].status = "approved"

\* C29: a role request is processed at most once -- its status goes from
\* pending to approved or to denied and never changes again -- and an
\* assignment is written only for a request that ends approved, under every
\* interleaving of approvals and denials.
C29_ProcessedOnce == []C29_GrantedIsApproved /\ [][C29_StatusStep]_vars

\* C30: an address never has two pending role requests.
C30_OnePendingPerAddress ==
    run.phase = "rbac" =>
        \A i, j \in DOMAIN run.requests :
            (/\ run.requests[i].address = run.requests[j].address
             /\ run.requests[i].status = "pending"
             /\ run.requests[j].status = "pending") => i = j

====
